---------------------------- MODULE Spec2Model ----------------------------
(***************************************************************************)
(* Model of the Genesis ethical governor                                   *)
(* (src/app/ai_backend/genesis_ethical_governor.py): the EthicalGovernor   *)
(* object shared by concurrent callers of evaluate_action,                 *)
(* review_decision, register_interceptor and activate_governance.          *)
(*                                                                         *)
(* Numbers that are floats in the source are kept as integer hundredths    *)
(* (0.95 -> 95).  Each thread executes one call at a time; a call is       *)
(* split into steps wherever another thread can observe or disturb it.     *)
(***************************************************************************)
EXTENDS Integers, Sequences, FiniteSets, TLC

(***************************************************************************)
(* Bounds of the model.                                                    *)
(***************************************************************************)
\* Number of concurrent caller threads.
NumThreads == 2
\* Total number of calls (of any operation) started in one behaviour.
MaxCalls == 3
\* Stand-in for the history deque's maxlen (10000 in the source), scaled so
\* that eviction happens within MaxCalls evaluations.
HistoryCapacity == 1
\* Last second the clock (int(time.time())) is followed to; it starts at 0.
MaxClock == 1
\* max_retries of the API client (3 in the test fixture).
MaxRetries == 2

Threads == 1..NumThreads
NoThread == 0

(***************************************************************************)
(* Enumerations (EthicalSeverity, EthicalDecisionType, EthicalDomain).     *)
(***************************************************************************)
EthicalSeverity == {"info", "concern", "warning", "violation", "critical"}

EthicalDecisionType == {"allow", "monitor", "restrict", "block", "escalate"}

EthicalDomain ==
    {"privacy", "security", "autonomy", "transparency", "fairness", "safety",
     "creativity", "human_wellbeing", "system_integrity"}

(***************************************************************************)
(* EthicalContext.  user_consent is Optional[bool]: "None", "True",        *)
(* "False".  target and metadata take no part in any rule and are left     *)
(* out.                                                                    *)
(***************************************************************************)
EthicalContext(action_type, actor, scope, user_consent, reversible, persistent, sensitive_data_involved, system_modification, user_visible) ==
    [action_type |-> action_type, actor |-> actor, scope |-> scope,
     user_consent |-> user_consent, reversible |-> reversible,
     persistent |-> persistent,
     sensitive_data_involved |-> sensitive_data_involved,
     system_modification |-> system_modification,
     user_visible |-> user_visible]

\* EthicalContext(action_type=..., actor=...) with every other field defaulted.
DefaultContext(action_type, actor) ==
    EthicalContext(action_type, actor, "local", "None", TRUE, FALSE, FALSE,
                   FALSE, TRUE)

(***************************************************************************)
(* EthicalDecision.  confidence is in hundredths; reasoning is kept as the *)
(* tag of the message template; timestamp and the owned context are left   *)
(* out.                                                                    *)
(***************************************************************************)
EthicalDecision(decision_id, action_type, actor, decision, severity, affected_principles, reasoning, confidence, monitoring_requirements, escalation_reason) ==
    [decision_id |-> decision_id, action_type |-> action_type,
     actor |-> actor, decision |-> decision, severity |-> severity,
     affected_principles |-> affected_principles, reasoning |-> reasoning,
     confidence |-> confidence, restrictions |-> <<>>,
     monitoring_requirements |-> monitoring_requirements,
     escalation_reason |-> escalation_reason]

\* Placeholder for "no decision" in a thread's locals and return slot.
NoDecision ==
    EthicalDecision(<<"none">>, "", "", "none", "none", <<>>, "", 0, <<>>, "None")

(***************************************************************************)
(* Rule evaluators.                                                        *)
(***************************************************************************)
\* Faulty variant of CheckViolations, not what the code does: the rules form
\* an if/elif chain, so the first that triggers suppresses the others.
CheckViolationsChained(action_type, context) ==
    IF context.sensitive_data_involved /\ context.user_consent # "True"
    THEN <<"privacy">>
    ELSE IF context.system_modification /\ context.scope = "global"
    THEN <<"security">>
    ELSE IF ~context.user_visible /\ context.persistent
    THEN <<"autonomy">>
    ELSE <<>>

\* _check_violations: three independent rules, in list order.
CheckViolations(action_type, context) ==
    (IF context.sensitive_data_involved /\ context.user_consent # "True"
        THEN <<"privacy">> ELSE <<>>)
    \o (IF context.system_modification /\ context.scope = "global"
        THEN <<"security">> ELSE <<>>)
    \o (IF ~context.user_visible /\ context.persistent
        THEN <<"autonomy">> ELSE <<>>)

\* Faulty variant of CheckConcerns, not what the code does: the exemption of
\* the two background action types is missing.
CheckConcernsNoExemption(action_type, context) ==
    (IF ~context.user_visible THEN <<"transparency">> ELSE <<>>)
    \o (IF ~context.reversible /\ context.scope \in {"system", "global"}
        THEN <<"safety">> ELSE <<>>)

\* _check_concerns: two independent rules, in list order.
CheckConcerns(action_type, context) ==
    (IF ~context.user_visible
        /\ action_type \notin {"system_monitor", "background_task"}
        THEN <<"transparency">> ELSE <<>>)
    \o (IF ~context.reversible /\ context.scope \in {"system", "global"}
        THEN <<"safety">> ELSE <<>>)

\* Faulty variant of RulePipeline, not what the code does: a block decision
\* lists the concerns after the violations.
RulePipelineMerged(decision_id, action_type, context) ==
    LET violations == CheckViolations(action_type, context)
        concerns == CheckConcerns(action_type, context)
    IN  IF violations # <<>>
        THEN EthicalDecision(decision_id, action_type, context.actor, "block",
                             "violation", violations \o concerns, "violations",
                             95, <<>>, "None")
        ELSE IF concerns # <<>>
        THEN EthicalDecision(decision_id, action_type, context.actor, "monitor",
                             "concern", concerns, "concerns", 85,
                             <<"increased_logging", "user_notification">>,
                             "None")
        ELSE EthicalDecision(decision_id, action_type, context.actor, "allow",
                             "info", <<>>, "none", 90, <<>>, "None")

\* Faulty variant of RulePipeline, not what the code does: the concerns are
\* tested for "is not None", so an action without concerns is monitored.
RulePipelineAlwaysMonitors(decision_id, action_type, context) ==
    LET violations == CheckViolations(action_type, context)
        concerns == CheckConcerns(action_type, context)
    IN  IF violations # <<>>
        THEN EthicalDecision(decision_id, action_type, context.actor, "block",
                             "violation", violations, "violations", 95, <<>>,
                             "None")
        ELSE EthicalDecision(decision_id, action_type, context.actor, "monitor",
                             "concern", concerns, "concerns", 85,
                             <<"increased_logging", "user_notification">>,
                             "None")

\* The rule pipeline of _evaluate_action, for a given decision id.
RulePipeline(decision_id, action_type, context) ==
    LET violations == CheckViolations(action_type, context)
        concerns == CheckConcerns(action_type, context)
    IN  IF violations # <<>>
        THEN EthicalDecision(decision_id, action_type, context.actor, "block",
                             "violation", violations, "violations", 95, <<>>,
                             "None")
        ELSE IF concerns # <<>>
        THEN EthicalDecision(decision_id, action_type, context.actor, "monitor",
                             "concern", concerns, "concerns", 85,
                             <<"increased_logging", "user_notification">>,
                             "None")
        ELSE EthicalDecision(decision_id, action_type, context.actor, "allow",
                             "info", <<>>, "none", 90, <<>>, "None")


\* _general_ethical_evaluation(action_type, actor, action_data, context,
\* decision_id): the general evaluator of evaluate_action, which applies the
\* violation and concern rules under the id it is handed.
GeneralEthicalEvaluation(action_type, actor, action_data, context, decision_id) ==
    RulePipeline(decision_id, action_type, context)

\* _infer_context: best-effort context from the keys of action_data and from
\* the action type; every absent signal leaves the EthicalContext default.
InferContext(action_type, actor, action_data) ==
    EthicalContext(action_type, actor, "local",
                   IF "consent" \in action_data THEN "True" ELSE "None",
                   TRUE, "persistent" \in action_data,
                   "sensitive" \in action_data, FALSE,
                   action_type \notin {"system_monitor", "background_task"})

(***************************************************************************)
(* Evaluators that can sit in the interceptor registry.  "core" stands for *)
(* the five built-in interceptors registered by _setup_core_interceptors;  *)
(* the others are callables a host registers at run time: one returning a  *)
(* restrict decision, one returning an escalate decision, one returning a  *)
(* block decision it grades as a warning, one that raises.                 *)
(***************************************************************************)
CoreActionTypes ==
    {"data_access", "system_modify", "user_interact", "ai_decision",
     "network_communicate"}

HostEvaluators == {"restrictor", "escalator", "blocker", "faulty"}

\* Whether calling the evaluator raises.
EvaluatorFaults(evaluator) == evaluator = "faulty"

\* The decision an evaluator returns when it does not raise.
EvaluatorDecision(evaluator, actor, action_data, context, decision_id) ==
    CASE evaluator = "restrictor" ->
            EthicalDecision(decision_id, context.action_type, actor, "restrict",
                            "warning", <<"autonomy">>, "host", 80, <<>>, "None")
      [] evaluator = "escalator" ->
            EthicalDecision(decision_id, context.action_type, actor, "escalate",
                            "warning", <<"safety">>, "host", 70, <<>>,
                            "human_oversight")
      [] evaluator = "blocker" ->
            EthicalDecision(decision_id, context.action_type, actor, "block",
                            "warning", <<"fairness">>, "host", 60, <<>>, "None")
      [] OTHER ->
            RulePipeline(decision_id, context.action_type, context)

(***************************************************************************)
(* Principle weights, in hundredths.                                       *)
(***************************************************************************)
\* default_weights of _initialize_principle_weights.
DefaultWeights ==
    [p \in EthicalDomain |->
        CASE p \in {"privacy", "security", "human_wellbeing"} -> 100
          [] p \in {"autonomy", "transparency", "safety", "system_integrity"} -> 90
          [] OTHER -> 80]

\* The principle keywords the if/elif chain looks for.
Keywords == {"privacy", "security", "transparency", "autonomy", "creativity"}

\* self.ethical_foundation: a list of free-text statements, each given by the
\* set of principle keywords its lower-cased text contains.  The lists
\* followed: the empty one, every list of one or two statements, and three
\* statements of which one names two principles and one names none.
Foundations ==
    {<<>>}
       \cup {<<s>> : s \in SUBSET Keywords}
       \cup {<<s, u>> : s \in SUBSET Keywords, u \in SUBSET Keywords}
       \cup {<<{"security", "privacy"}, {"creativity", "autonomy"}, {}>>}

\* Faulty variant of FoundationSeed, not what the code does: a statement
\* naming creativity seeds it with 0.9, above its default.
FoundationSeedBoosted(statement) ==
    IF "privacy" \in statement THEN [p \in {"privacy"} |-> 100]
    ELSE IF "security" \in statement THEN [p \in {"security"} |-> 100]
    ELSE IF "transparency" \in statement THEN [p \in {"transparency"} |-> 90]
    ELSE IF "autonomy" \in statement THEN [p \in {"autonomy"} |-> 90]
    ELSE IF "creativity" \in statement THEN [p \in {"creativity"} |-> 90]
    ELSE [p \in {} |-> 0]

\* The if/elif chain on one statement: the principle whose weight it sets
\* and the weight, as a one-entry (or empty) dict.
FoundationSeed(statement) ==
    IF "privacy" \in statement THEN [p \in {"privacy"} |-> 100]
    ELSE IF "security" \in statement THEN [p \in {"security"} |-> 100]
    ELSE IF "transparency" \in statement THEN [p \in {"transparency"} |-> 90]
    ELSE IF "autonomy" \in statement THEN [p \in {"autonomy"} |-> 90]
    ELSE IF "creativity" \in statement THEN [p \in {"creativity"} |-> 80]
    ELSE [p \in {} |-> 0]

\* dict.update: the entries of the second dict over those of the first.
Updated(weights, entries) ==
    [p \in DOMAIN weights \cup DOMAIN entries |->
        IF p \in DOMAIN entries THEN entries[p] ELSE weights[p]]

RECURSIVE FoundationWeights(_, _)
\* "for principle in self.ethical_foundation": the dict after the loop.
FoundationWeights(foundation, weights) ==
    IF foundation = <<>> THEN weights
    ELSE FoundationWeights(Tail(foundation),
                           Updated(weights, FoundationSeed(Head(foundation))))

\* Faulty variant of InitializePrincipleWeights, not what the code does: the
\* defaults for the principles the foundation does not name are not filled in.
InitializeWithoutDefaults(foundation) ==
    FoundationWeights(foundation, [p \in {} |-> 0])

\* _initialize_principle_weights: the weights seeded by the foundation, and
\* the default weight for every principle it did not seed.
InitializePrincipleWeights(foundation) ==
    Updated(DefaultWeights, FoundationWeights(foundation, [p \in {} |-> 0]))

\* The size of one learning adjustment (a "slight" nudge), in hundredths.
LearnStep == 1

Clamp(w) == IF w < 0 THEN 0 ELSE IF w > 100 THEN 100 ELSE w

RECURSIVE AdjustAll(_, _, _)
\* The weight table after nudging every principle of the sequence by delta.
AdjustAll(weights, principles, delta) ==
    IF principles = <<>> THEN weights
    ELSE LET p == Head(principles)
         IN  AdjustAll(IF p \in DOMAIN weights
                       THEN [weights EXCEPT ![p] = Clamp(@ + delta)]
                       ELSE weights,
                       Tail(principles), delta)

\* _learn_from_decision: the weight table after learning from a decision.
LearnFromDecision(weights, decision) ==
    CASE decision.decision \in {"block", "restrict"} ->
            AdjustAll(weights, decision.affected_principles, LearnStep)
      [] decision.decision = "allow" ->
            AdjustAll(weights, decision.affected_principles, 0 - LearnStep)
      [] OTHER -> weights

(***************************************************************************)
(* deque(maxlen=n).append(x): the oldest entry is dropped when full.       *)
(***************************************************************************)
\* Faulty variant of DequeAppend, not what the code does: a plain list, which never drops an entry.
ListAppend(q, x, maxlen) == Append(q, x)

DequeAppend(q, x, maxlen) ==
    IF Len(q) < maxlen THEN Append(q, x)
    ELSE Append(SubSeq(q, 2, Len(q)), x)


(***************************************************************************)
(* Inputs the callers draw from.                                           *)
(***************************************************************************)
\* One action type with a built-in interceptor, one without.
ActionTypes == {"data_access", "file_cleanup"}

Actor == "aura"

\* A context handed to evaluate_action by the caller: not user visible, so
\* the transparency concern triggers.
HiddenContext(action_type) ==
    EthicalContext(action_type, Actor, "local", "None", TRUE, FALSE, FALSE,
                   FALSE, FALSE)

\* The (context, action_data) arguments of evaluate_action: context is None
\* (to be inferred) or the hidden context; action_data is the set of keys
\* it holds.
EvaluateArgs == {<<"None", {}>>, <<"None", {"sensitive"}>>, <<"hidden", {}>>}

\* The (action_type, evaluator) arguments of register_interceptor: a new
\* key, and the replacement of a built-in interceptor.
Registrations ==
    {<<"file_cleanup", "restrictor">>, <<"file_cleanup", "escalator">>,
     <<"file_cleanup", "blocker">>, <<"data_access", "faulty">>}

\* The context argument of review_decision: a dict, given by the value of
\* every key review_decision or the DecisionContext names ("absent" for a key
\* the dict does not hold, booleans as "True"/"False"), or an object without
\* a usable .get, such as None.
ContextKeys ==
    {"persona", "scope", "user_consent", "reversible", "persistent",
     "sensitive_data", "sensitive_data_involved", "system_modification",
     "user_visible"}

EmptyDict == [is_mapping |-> TRUE, items |-> [k \in ContextKeys |-> "absent"]]

DictWith(key, value) ==
    [is_mapping |-> TRUE,
     items |-> [k \in ContextKeys |-> IF k = key THEN value ELSE "absent"]]

NotAMapping == [is_mapping |-> FALSE, items |-> [k \in ContextKeys |-> "absent"]]

\* {"sensitive_data_involved": True, "user_consent": False}.
SensitiveNoConsent ==
    [is_mapping |-> TRUE,
     items |-> [k \in ContextKeys |->
                  CASE k = "sensitive_data_involved" -> "True"
                    [] k = "user_consent" -> "False"
                    [] OTHER -> "absent"]]

ContextMaps ==
    {EmptyDict, DictWith("sensitive_data", "True"), SensitiveNoConsent,
     NotAMapping}

\* dict.get(key, default).
Get(context_map, key, default) ==
    IF context_map.items[key] = "absent" THEN default
    ELSE context_map.items[key]

\* Outcomes of one call of perceive_ethical_decision (the awareness sink).
SinkOutcomes == {"ok", "raises"}

(***************************************************************************)
(* State.                                                                  *)
(***************************************************************************)
VARIABLES
    governance_active,    \* self.governance_active
    decision_history,     \* self.decision_history, oldest first
    monitoring_queue,     \* self.monitoring_queue
    ethical_metrics,      \* self.ethical_metrics
    principle_weights,    \* self.principle_weights
    action_interceptors,  \* self.action_interceptors: action type -> evaluator
    learning_mode,        \* self.learning_mode
    lock,                 \* owner of self._lock, or NoThread
    decision_counter,     \* counter behind _generate_decision_id
    sink_events,          \* number of events the awareness sink received
    sink_last,            \* the event it received last
    pc,                   \* per thread: position in its current call
    call,                 \* per thread: operation and arguments of its call
    frame,                \* per thread: locals of evaluate_action
    ret,                  \* the call that ended last, and how it ended
    calls,                \* number of calls started
    recorded,             \* id and kind of all decisions appended to the history, in order
    clock,                \* int(time.time()) as last read
    client,               \* the API client and the call it is making
    api                   \* the GenesisAPI object and its last request

vars ==
    <<governance_active, decision_history, monitoring_queue, ethical_metrics,
      principle_weights, action_interceptors, learning_mode, lock,
      decision_counter, sink_events, sink_last, pc, call, frame, ret, calls,
      recorded, clock, client, api>>

NoCall == [op |-> "none", action_type |-> "", context |-> "None", action_data |-> {}, context_map |-> NotAMapping, evaluator |-> ""]

ZeroMetrics ==
    [total_decisions |-> 0, violations_prevented |-> 0,
     restrictions_imposed |-> 0, escalations_required |-> 0,
     learning_adjustments |-> 0]

NoFrame ==
    [decision_id |-> <<"none">>, context |-> DefaultContext("", ""),
     decision |-> NoDecision, total |-> 0,
     violations |-> <<>>, concerns |-> <<>>,
     entry_history |-> <<>>, entry_metrics |-> ZeroMetrics]

\* How a call ended: the call (c.op and its arguments), the outcome
\* ("returned" or "raised"), the decision returned (or, when raised, the
\* decision computed so far), and what failed inside the call ("none",
\* "evaluator", "sink", "context").
Ended(c, outcome, decision, fault) ==
    [op |-> c.op, call |-> c, outcome |-> outcome, decision |-> decision,
     fault |-> fault]

NoReturn == Ended(NoCall, "none", NoDecision, "none")

\* An event as perceive_ethical_decision receives it: the event type, the
\* decision data and the weight hint.
SinkEvent(source, event_type, decision_id, decision, ethical_weight) ==
    [source |-> source, event_type |-> event_type, decision_id |-> decision_id,
     decision |-> decision, ethical_weight |-> ethical_weight]

NoEvent == SinkEvent("none", "", <<"none">>, "none", "")

\* The sink after one more event.
Perceive(event) == sink_events' = sink_events + 1 /\ sink_last' = event

\* deque(maxlen=1000) of self.monitoring_queue.
MonitoringCapacity == 1000

\* The API client before its first call: no request made, nothing slept,
\* nothing returned.  results holds how each call so far ended.
NoClient ==
    [pc |-> "idle", calls |-> 0, requests |-> 0, delays |-> <<>>,
     statuses |-> <<>>, result |-> "none", results |-> <<>>]

\* GenesisAPI.__init__, and no request served yet.  start_time is <<>> for
\* None and <<second>> once set; pc is the lifecycle call in progress;
\* last, outcome, returned and the health fields hold the call made last,
\* how the Genesis call it awaited ended, what it returned and the /health
\* response.
NoApi ==
    [is_running |-> FALSE, start_time |-> <<>>, requests |-> 0,
     pc |-> "idle", last |-> "none", outcome |-> "none",
     returned |-> "none", status |-> "none",
     timestamp |-> 0, uptime |-> <<>>]

\* __init__: the state after construction, with self.learning_mode as
\* given.  _setup_core_interceptors has registered the built-in interceptors.
Constructed(mode) ==
    /\ governance_active = FALSE
    /\ decision_history = <<>>
    /\ monitoring_queue = <<>>
    /\ ethical_metrics = ZeroMetrics
    /\ \E foundation \in Foundations :
          principle_weights = InitializePrincipleWeights(foundation)
    /\ action_interceptors = [a \in CoreActionTypes |-> "core"]
    /\ learning_mode = mode
    /\ lock = NoThread
    /\ decision_counter = 0
    /\ sink_events = 0
    /\ sink_last = NoEvent
    /\ client = NoClient
    /\ api = NoApi
    /\ pc = [t \in Threads |-> "idle"]
    /\ call = [t \in Threads |-> NoCall]
    /\ frame = [t \in Threads |-> NoFrame]
    /\ ret = NoReturn
    /\ calls = 0
    /\ recorded = <<>>
    /\ clock = 0

\* __init__ sets self.learning_mode = True.
Init == Constructed(TRUE)

\* A thread may start a new call.
CanCall(t) == pc[t] = "idle" /\ calls < MaxCalls


(***************************************************************************)
(* evaluate_action.                                                        *)
(***************************************************************************)
\* _generate_decision_id(action_type, actor): the next id of the counter.
GenerateDecisionId(action_type, actor) ==
    <<"eth", decision_counter + 1>>

\* The context evaluate_action works with: the caller's, or the inferred one.
ResolveContext(c) ==
    IF c.context = "None" THEN InferContext(c.action_type, Actor, c.action_data)
    ELSE HiddenContext(c.action_type)

\* Faulty variant of EvaluateBypass, not what the code does: the bypassed call is counted as a decision.
EvaluateBypassCounted(t, c) ==
    /\ ret' = Ended(c, "returned",
                    EthicalDecision(GenerateDecisionId(c.action_type, Actor),
                                    c.action_type, Actor, "allow", "info",
                                    <<>>, "not_active", 100, <<>>, "None"),
                    "none")
    /\ ethical_metrics' = [ethical_metrics EXCEPT !.total_decisions = @ + 1]
    /\ decision_counter' = decision_counter + 1
    /\ UNCHANGED <<pc, call, decision_history, monitoring_queue,
                   principle_weights, action_interceptors, lock, sink_events,
                   sink_last, frame, recorded>>

\* Faulty variant of EvaluateBypass, not what the code does: the rules are applied although governance is
\* not active.
EvaluateBypassChecked(t, c) ==
    /\ ret' = Ended(c, "returned",
                    RulePipeline(GenerateDecisionId(c.action_type, Actor),
                                 c.action_type, ResolveContext(c)),
                    "none")
    /\ decision_counter' = decision_counter + 1
    /\ UNCHANGED <<pc, call, decision_history, monitoring_queue,
                   ethical_metrics, principle_weights, action_interceptors,
                   lock, sink_events, sink_last, frame, recorded>>

\* Faulty variant of EvaluateBypass, not what the code does: the bypassing
\* allow decision is appended to the history.
EvaluateBypassRecorded(t, c) ==
    LET d == EthicalDecision(GenerateDecisionId(c.action_type, Actor),
                             c.action_type, Actor, "allow", "info", <<>>,
                             "not_active", 100, <<>>, "None")
    IN  /\ ret' = Ended(c, "returned", d, "none")
        /\ decision_history' = DequeAppend(decision_history, d, HistoryCapacity)
        /\ decision_counter' = decision_counter + 1
        /\ UNCHANGED <<pc, call, monitoring_queue, ethical_metrics,
                       principle_weights, action_interceptors, lock,
                       sink_events, sink_last, frame, recorded>>

\* The branch taken while governance is not active: an allow decision is
\* returned at once; nothing of the governor but the id counter is touched.
EvaluateBypass(t, c) ==
    /\ ret' = Ended(c, "returned",
                    EthicalDecision(GenerateDecisionId(c.action_type, Actor),
                                    c.action_type, Actor, "allow", "info",
                                    <<>>, "not_active", 100, <<>>, "None"),
                    "none")
    /\ decision_counter' = decision_counter + 1
    /\ UNCHANGED <<pc, call>>
    /\ UNCHANGED <<decision_history, monitoring_queue, ethical_metrics,
                   principle_weights, action_interceptors, lock, sink_events,
                   sink_last, frame, recorded>>

\* A thread calls evaluate_action and tests self.governance_active.
EvaluateAction(t) ==
    /\ CanCall(t)
    /\ \E a \in ActionTypes, args \in EvaluateArgs :
          LET c == [NoCall EXCEPT !.op = "evaluate", !.action_type = a,
                                  !.context = args[1], !.action_data = args[2]]
          IN  /\ calls' = calls + 1
              /\ IF ~governance_active
                 THEN EvaluateBypass(t, c)
                 ELSE /\ call' = [call EXCEPT ![t] = c]
                      /\ pc' = [pc EXCEPT ![t] = "ev_lock"]
                      /\ UNCHANGED ret
                      /\ UNCHANGED <<decision_history, monitoring_queue,
                                     ethical_metrics, principle_weights,
                                     action_interceptors, lock,
                                     decision_counter, sink_events, sink_last,
                                     frame, recorded>>
    /\ UNCHANGED <<governance_active, learning_mode, client, api, clock>>

\* Faulty variant of LockAvailable, not what the code does: the lock excludes nobody.
LockIgnored(t) == TRUE

\* threading.RLock: free, or already owned by the caller.
LockAvailable(t) == lock \in {NoThread, t}

\* "with self._lock": the lock is taken, the id generated and the context
\* resolved (both local to the call).
EvaluateEnter(t) ==
    /\ pc[t] = "ev_lock"
    /\ LockAvailable(t)
    /\ lock' = t
    /\ decision_counter' = decision_counter + 1
    /\ frame' = [frame EXCEPT ![t] =
          [NoFrame EXCEPT
             !.decision_id = GenerateDecisionId(call[t].action_type, Actor),
             !.context = ResolveContext(call[t]),
             !.entry_history = decision_history,
             !.entry_metrics = ethical_metrics]]
    /\ pc' = [pc EXCEPT ![t] = "ev_dispatch"]
    /\ UNCHANGED <<governance_active, decision_history, monitoring_queue,
                   ethical_metrics, principle_weights, action_interceptors,
                   learning_mode, client, api, clock, sink_events, sink_last,
                   call, ret, calls, recorded>>

\* Faulty variant of EvaluateRaise, not what the code does: the exception
\* leaves evaluate_action with the lock still held.
EvaluateRaiseHoldsLock(t, fault) ==
    /\ lock' = lock
    /\ pc' = [pc EXCEPT ![t] = "idle"]
    /\ frame' = [frame EXCEPT ![t] = NoFrame]
    /\ call' = [call EXCEPT ![t] = NoCall]
    /\ ret' = Ended(call[t], "raised", frame[t].decision, fault)

\* An exception leaves evaluate_action: the with block releases the lock and
\* the caller gets the exception.
EvaluateRaise(t, fault) ==
    /\ lock' = NoThread
    /\ pc' = [pc EXCEPT ![t] = "idle"]
    /\ frame' = [frame EXCEPT ![t] = NoFrame]
    /\ call' = [call EXCEPT ![t] = NoCall]
    /\ ret' = Ended(call[t], "raised", frame[t].decision, fault)

\* Faulty variant of HasInterceptor, not what the code does: the registry is
\* never consulted.
NeverIntercepted(registry, action_type) == FALSE

\* "action_type in self.action_interceptors".
HasInterceptor(registry, action_type) == action_type \in DOMAIN registry

\* "if action_type in self.action_interceptors": the registered interceptor,
\* or else the general evaluator, is called.  The registry only gains and
\* replaces keys, so the test and the lookup read it as one.
EvaluateDispatch(t) ==
    /\ pc[t] = "ev_dispatch"
    /\ LET f == frame[t]
           c == call[t]
           has_interceptor == HasInterceptor(action_interceptors, c.action_type)
           evaluator == IF has_interceptor
                        THEN action_interceptors[c.action_type]
                        ELSE "general"
       IN  IF EvaluatorFaults(evaluator)
           THEN EvaluateRaise(t, "evaluator")
           ELSE /\ frame' = [frame EXCEPT ![t].decision =
                      IF has_interceptor
                      THEN EvaluatorDecision(evaluator, Actor, c.action_data,
                                             f.context, f.decision_id)
                      ELSE GeneralEthicalEvaluation(c.action_type, Actor,
                                                    c.action_data, f.context,
                                                    f.decision_id)]
                /\ pc' = [pc EXCEPT ![t] = "ev_append"]
                /\ UNCHANGED <<lock, call, ret>>
    /\ UNCHANGED <<governance_active, decision_history, monitoring_queue,
                   ethical_metrics, principle_weights, action_interceptors,
                   learning_mode, client, api, clock, decision_counter,
                   sink_events, sink_last, calls, recorded>>


\* Faulty variant of EvaluateAppend, not what the code does: the decision is
\* not in the history when the later steps run.
EvaluateAppendSkipped(t) ==
    /\ pc[t] = "ev_append"
    /\ pc' = [pc EXCEPT ![t] = "ev_total_load"]
    /\ UNCHANGED <<governance_active, decision_history, monitoring_queue,
                   ethical_metrics, principle_weights, action_interceptors,
                   learning_mode, client, api, clock, lock, decision_counter,
                   sink_events, sink_last, call, frame, ret, calls, recorded>>

\* Faulty variant of EvaluateAppend, not what the code does: a monitor
\* decision is put on the monitoring queue as well.
EvaluateAppendEnqueues(t) ==
    /\ pc[t] = "ev_append"
    /\ decision_history' =
          DequeAppend(decision_history, frame[t].decision, HistoryCapacity)
    /\ recorded' = Append(recorded,
                          [decision_id |-> frame[t].decision.decision_id,
                           decision |-> frame[t].decision.decision])
    /\ monitoring_queue' =
          IF frame[t].decision.decision = "monitor"
          THEN Append(monitoring_queue, frame[t].decision)
          ELSE monitoring_queue
    /\ pc' = [pc EXCEPT ![t] = "ev_total_load"]
    /\ UNCHANGED <<governance_active, ethical_metrics, principle_weights,
                   action_interceptors, learning_mode, client, api, clock,
                   lock, decision_counter, sink_events, sink_last, call,
                   frame, ret, calls>>

\* "self.decision_history.append(decision)".
EvaluateAppend(t) ==
    /\ pc[t] = "ev_append"
    /\ decision_history' =
          DequeAppend(decision_history, frame[t].decision, HistoryCapacity)
    /\ recorded' = Append(recorded,
                          [decision_id |-> frame[t].decision.decision_id,
                           decision |-> frame[t].decision.decision])
    /\ pc' = [pc EXCEPT ![t] = "ev_total_load"]
    /\ UNCHANGED <<governance_active, monitoring_queue, ethical_metrics,
                   principle_weights, action_interceptors, learning_mode,
                   client, api, clock, lock, decision_counter, sink_events,
                   sink_last, call, frame, ret, calls>>

\* 'self.ethical_metrics["total_decisions"] += 1', first half: the load.
EvaluateTotalLoad(t) ==
    /\ pc[t] = "ev_total_load"
    /\ frame' = [frame EXCEPT ![t].total = ethical_metrics.total_decisions]
    /\ pc' = [pc EXCEPT ![t] = "ev_count"]
    /\ UNCHANGED <<governance_active, decision_history, monitoring_queue,
                   ethical_metrics, principle_weights, action_interceptors,
                   learning_mode, client, api, clock, lock, decision_counter,
                   sink_events, sink_last, call, ret, calls, recorded>>

\* Faulty variant of CountKind, not what the code does: an escalation is
\* counted as a prevented violation as well.
CountKindEscalationPrevents(metrics, kind) ==
    CASE kind = "block" ->
            [metrics EXCEPT !.violations_prevented = @ + 1]
      [] kind = "restrict" ->
            [metrics EXCEPT !.restrictions_imposed = @ + 1]
      [] kind = "escalate" ->
            [metrics EXCEPT !.violations_prevented = @ + 1,
                            !.escalations_required = @ + 1]
      [] OTHER -> metrics

\* Faulty variant of CountKind, not what the code does: the restrict and escalate branches are swapped.
CountKindSwapped(metrics, kind) ==
    CASE kind = "block" ->
            [metrics EXCEPT !.violations_prevented = @ + 1]
      [] kind = "restrict" ->
            [metrics EXCEPT !.escalations_required = @ + 1]
      [] kind = "escalate" ->
            [metrics EXCEPT !.restrictions_imposed = @ + 1]
      [] OTHER -> metrics

\* The metrics after the if/elif chain on decision.decision.
CountKind(metrics, kind) ==
    CASE kind = "block" ->
            [metrics EXCEPT !.violations_prevented = @ + 1]
      [] kind = "restrict" ->
            [metrics EXCEPT !.restrictions_imposed = @ + 1]
      [] kind = "escalate" ->
            [metrics EXCEPT !.escalations_required = @ + 1]
      [] OTHER -> metrics

\* Faulty variant of EvaluateCount, not what the code does: only the counter
\* of the decision kind is raised, total_decisions is not.
EvaluateCountKindOnly(t) ==
    /\ pc[t] = "ev_count"
    /\ ethical_metrics' = CountKind(ethical_metrics, frame[t].decision.decision)
    /\ pc' = [pc EXCEPT ![t] = "ev_emit"]
    /\ UNCHANGED <<governance_active, decision_history, monitoring_queue,
                   principle_weights, action_interceptors, learning_mode,
                   client, api, clock, lock, decision_counter, sink_events,
                   sink_last, call, frame, ret, calls, recorded>>

\* 'self.ethical_metrics["total_decisions"] += 1', second half: the store;
\* then "Update metrics based on decision".
EvaluateCount(t) ==
    /\ pc[t] = "ev_count"
    /\ ethical_metrics' =
          CountKind([ethical_metrics EXCEPT
                        !.total_decisions = frame[t].total + 1],
                    frame[t].decision.decision)
    /\ pc' = [pc EXCEPT ![t] = "ev_emit"]
    /\ UNCHANGED <<governance_active, decision_history, monitoring_queue,
                   principle_weights, action_interceptors, learning_mode,
                   client, api, clock, lock, decision_counter, sink_events,
                   sink_last, call, frame, ret, calls, recorded>>

\* The event perceive_ethical_decision is handed for a decision.
DecisionEvent(source, decision) ==
    SinkEvent(source, decision.action_type, decision.decision_id,
              decision.decision, decision.severity)

\* perceive_ethical_decision(...) inside evaluate_action; it is not guarded,
\* so an exception of the sink leaves evaluate_action.
EvaluateEmit(t) ==
    /\ pc[t] = "ev_emit"
    /\ \E outcome \in SinkOutcomes :
          IF outcome = "ok"
          THEN /\ Perceive(DecisionEvent("evaluate", frame[t].decision))
               /\ pc' = [pc EXCEPT ![t] = "ev_learn"]
               /\ UNCHANGED <<lock, call, frame, ret>>
          ELSE /\ EvaluateRaise(t, "sink")
               /\ UNCHANGED <<sink_events, sink_last>>
    /\ UNCHANGED <<governance_active, decision_history, monitoring_queue,
                   ethical_metrics, principle_weights, action_interceptors,
                   learning_mode, client, api, clock, decision_counter, calls,
                   recorded>>

\* Faulty variant of EvaluateLearnReturn, not what the code does: learning
\* rewrites the decision object, scaling its confidence by the weight of its
\* first principle.
EvaluateLearnRewrites(t) ==
    /\ pc[t] = "ev_learn"
    /\ LET d == frame[t].decision
           learnt == IF learning_mode /\ d.affected_principles # <<>>
                     THEN [d EXCEPT !.confidence =
                             (@ * principle_weights[d.affected_principles[1]])
                                \div 200]
                     ELSE d
       IN  /\ ret' = Ended(call[t], "returned", learnt, "none")
           /\ decision_history' =
                 [decision_history EXCEPT ![Len(decision_history)] = learnt]
    /\ IF learning_mode
       THEN /\ principle_weights' =
                  LearnFromDecision(principle_weights, frame[t].decision)
            /\ ethical_metrics' =
                  [ethical_metrics EXCEPT !.learning_adjustments = @ + 1]
       ELSE UNCHANGED <<principle_weights, ethical_metrics>>
    /\ lock' = NoThread
    /\ frame' = [frame EXCEPT ![t] = NoFrame]
    /\ call' = [call EXCEPT ![t] = NoCall]
    /\ pc' = [pc EXCEPT ![t] = "idle"]
    /\ UNCHANGED <<governance_active, monitoring_queue, action_interceptors,
                   learning_mode, client, api, clock, decision_counter,
                   sink_events, sink_last, calls, recorded>>

\* "if self.learning_mode: self._learn_from_decision(decision)", then
\* "return decision": the with block ends and releases the lock.
EvaluateLearnReturn(t) ==
    /\ pc[t] = "ev_learn"
    /\ IF learning_mode
       THEN /\ principle_weights' =
                  LearnFromDecision(principle_weights, frame[t].decision)
            /\ ethical_metrics' =
                  [ethical_metrics EXCEPT !.learning_adjustments = @ + 1]
       ELSE UNCHANGED <<principle_weights, ethical_metrics>>
    /\ lock' = NoThread
    /\ ret' = Ended(call[t], "returned", frame[t].decision, "none")
    /\ frame' = [frame EXCEPT ![t] = NoFrame]
    /\ call' = [call EXCEPT ![t] = NoCall]
    /\ pc' = [pc EXCEPT ![t] = "idle"]
    /\ UNCHANGED <<governance_active, decision_history, monitoring_queue,
                   action_interceptors, learning_mode, client, api, clock,
                   decision_counter, sink_events, sink_last, calls, recorded>>

\* "self._learn_from_decision(decision)" raises: the exception leaves the
\* with block, which releases the lock.
EvaluateLearnRaise(t) ==
    /\ pc[t] = "ev_learn"
    /\ learning_mode
    /\ EvaluateRaise(t, "learner")
    /\ UNCHANGED <<governance_active, decision_history, monitoring_queue,
                   ethical_metrics, principle_weights, action_interceptors,
                   learning_mode, client, api, clock, decision_counter,
                   sink_events, sink_last, calls, recorded>>

(***************************************************************************)
(* review_decision.                                                        *)
(***************************************************************************)
\* Python truth of a value taken from the context dict.
Truthy(v) == v = "True"

\* The EthicalContext review_decision builds from the dict.
ReviewContext(action_type, context_map) ==
    EthicalContext(action_type,
                   Get(context_map, "persona", "unknown"),
                   Get(context_map, "scope", "local"),
                   Get(context_map, "user_consent", "None"),
                   Truthy(Get(context_map, "reversible", "True")),
                   Truthy(Get(context_map, "persistent", "False")),
                   Truthy(Get(context_map, "sensitive_data", "False")),
                   Truthy(Get(context_map, "system_modification", "False")),
                   Truthy(Get(context_map, "user_visible", "True")))

\* int(time.time()): a second not before the one read last.
Seconds == clock..MaxClock

\* f"decision_{int(time.time())}_{hash(action_type) % 10000}", for the second
\* the step reads.  The hash is a function of the action type alone;
\* distinct action types are given distinct hashes here.
TimeHashId(action_type) == <<"decision", clock', action_type>>

\* f"error_{int(time.time())}".
ErrorId == <<"error", clock'>>

\* _evaluate_action(action_type, context): the rule pipeline under an id
\* made of the second and the action type.
EvaluateActionRules(action_type, context) ==
    RulePipeline(TimeHashId(action_type), action_type, context)

\* What fails inside the try block of review_decision: building the context
\* (context.get on something that is no mapping), else the sink, else nothing.
ReviewFault(context_map, sink_outcome) ==
    IF ~context_map.is_mapping THEN "context"
    ELSE IF sink_outcome = "raises" THEN "sink"
    ELSE "none"

\* The except branch of review_decision: the fallback decision.  Building it
\* calls context.get("persona", "unknown") again, outside any try.
ReviewFallback(c, fault) ==
    IF ~c.context_map.is_mapping
    THEN Ended(c, "raised", NoDecision, fault)
    ELSE Ended(c, "returned",
               EthicalDecision(ErrorId, c.action_type,
                               Get(c.context_map, "persona", "unknown"), "block",
                               "critical", <<"system_integrity">>,
                               "review_failed", 100, <<>>,
                               "review_system_error"),
               fault)

\* review_decision(action_type, context, metadata): how the call ends.
ReviewDecision(c, sink_outcome) ==
    LET fault == ReviewFault(c.context_map, sink_outcome)
    IN  IF fault = "none"
        THEN Ended(c, "returned",
                   EvaluateActionRules(c.action_type,
                      ReviewContext(c.action_type, c.context_map)),
                   "none")
        ELSE ReviewFallback(c, fault)

\* Faulty variant of Review, not what the code does: a review is counted as a
\* decision of the governor.
ReviewCounted(t) ==
    /\ CanCall(t)
    /\ \E now \in Seconds : clock' = now
    /\ \E a \in ActionTypes, m \in ContextMaps, outcome \in SinkOutcomes :
          LET c == [NoCall EXCEPT !.op = "review", !.action_type = a,
                                  !.context_map = m]
          IN  /\ ret' = ReviewDecision(c, outcome)
              /\ IF ReviewFault(m, outcome) = "none"
                 THEN Perceive(DecisionEvent("review",
                                  ReviewDecision(c, outcome).decision))
                 ELSE UNCHANGED <<sink_events, sink_last>>
    /\ calls' = calls + 1
    /\ ethical_metrics' = [ethical_metrics EXCEPT !.total_decisions = @ + 1]
    /\ UNCHANGED <<governance_active, decision_history, monitoring_queue,
                   principle_weights, action_interceptors, learning_mode,
                   client, api, lock, decision_counter, pc, call, frame,
                   recorded>>

\* A thread calls review_decision.  It takes no lock and reads no governor
\* field; its only effect outside the call is the sink event.
Review(t) ==
    /\ CanCall(t)
    /\ \E now \in Seconds : clock' = now
    /\ \E a \in ActionTypes, m \in ContextMaps, outcome \in SinkOutcomes :
          LET c == [NoCall EXCEPT !.op = "review", !.action_type = a,
                                  !.context_map = m]
          IN  /\ ret' = ReviewDecision(c, outcome)
              /\ IF ReviewFault(m, outcome) = "none"
                 THEN Perceive(DecisionEvent("review",
                                  ReviewDecision(c, outcome).decision))
                 ELSE UNCHANGED <<sink_events, sink_last>>
    /\ calls' = calls + 1
    /\ UNCHANGED <<governance_active, decision_history, monitoring_queue,
                   ethical_metrics, principle_weights, action_interceptors,
                   learning_mode, client, api, lock, decision_counter, pc,
                   call, frame, recorded>>

(***************************************************************************)
(* register_interceptor and activate_governance.                           *)
(***************************************************************************)
\* Faulty variant of SetItem, not what the code does: dict.setdefault, which
\* keeps the evaluator already registered for the action type.
SetDefault(registry, action_type, evaluator) ==
    [a \in DOMAIN registry \cup {action_type} |->
        IF a \in DOMAIN registry THEN registry[a] ELSE evaluator]

\* "self.action_interceptors[action_type] = evaluator".
SetItem(registry, action_type, evaluator) ==
    [a \in DOMAIN registry \cup {action_type} |->
        IF a = action_type THEN evaluator ELSE registry[a]]

\* A thread calls register_interceptor(action_type, evaluator).  The method
\* takes no lock: it writes the registry whoever holds self._lock.
RegisterInterceptor(t) ==
    /\ CanCall(t)
    /\ \E r \in Registrations :
          /\ action_interceptors' = SetItem(action_interceptors, r[1], r[2])
          /\ ret' = Ended([NoCall EXCEPT !.op = "register",
                                            !.action_type = r[1],
                                            !.evaluator = r[2]],
                          "returned", NoDecision, "none")
    /\ calls' = calls + 1
    /\ UNCHANGED <<governance_active, decision_history, monitoring_queue,
                   ethical_metrics, principle_weights, learning_mode, client,
                   api, clock, lock, decision_counter, sink_events, sink_last,
                   pc, call, frame, recorded>>

\* Faulty variant of Activated, not what the code does: activation toggles the flag.
Toggled(current) == ~current

\* The value activate_governance stores in self.governance_active.
Activated(current) == TRUE

\* A thread calls activate_governance: the flag is set, then the activation
\* is handed to the sink (unguarded).
ActivateGovernance(t) ==
    /\ CanCall(t)
    /\ governance_active' = Activated(governance_active)
    /\ \E outcome \in SinkOutcomes :
          IF outcome = "ok"
          THEN /\ Perceive(SinkEvent("activate", "governance_activation",
                                      <<"none">>, "none", "high"))
               /\ ret' = Ended([NoCall EXCEPT !.op = "activate"],
                               "returned", NoDecision, "none")
          ELSE /\ UNCHANGED <<sink_events, sink_last>>
               /\ ret' = Ended([NoCall EXCEPT !.op = "activate"],
                               "raised", NoDecision, "sink")
    /\ calls' = calls + 1
    /\ UNCHANGED <<decision_history, monitoring_queue, ethical_metrics,
                   principle_weights, action_interceptors, learning_mode,
                   client, api, clock, lock, decision_counter, pc, call,
                   frame, recorded>>

(***************************************************************************)
(* The governor under concurrent callers.                                  *)
(***************************************************************************)
Next ==
    \E t \in Threads :
        \/ EvaluateAction(t)
        \/ EvaluateEnter(t)
        \/ EvaluateDispatch(t)
        \/ EvaluateAppend(t)
        \/ EvaluateTotalLoad(t)
        \/ EvaluateCount(t)
        \/ EvaluateEmit(t)
        \/ EvaluateLearnReturn(t)
        \/ Review(t)
        \/ RegisterInterceptor(t)
        \/ ActivateGovernance(t)

Spec == Init /\ [][Next]_vars

(***************************************************************************)
(* The callers of evaluate_action under fair scheduling: a caller inside   *)
(* the with block keeps running, and a caller waiting for the lock gets it *)
(* if it is free again and again.  The learning adjuster may raise.        *)
(***************************************************************************)
FairNext ==
    \E t \in Threads :
        \/ EvaluateAction(t)
        \/ EvaluateEnter(t)
        \/ EvaluateDispatch(t)
        \/ EvaluateAppend(t)
        \/ EvaluateTotalLoad(t)
        \/ EvaluateCount(t)
        \/ EvaluateEmit(t)
        \/ EvaluateLearnReturn(t)
        \/ EvaluateLearnRaise(t)
        \/ RegisterInterceptor(t)
        \/ ActivateGovernance(t)

\* The next statement of a caller inside the with block.
EvaluateStep(t) ==
    \/ EvaluateDispatch(t)
    \/ EvaluateAppend(t)
    \/ EvaluateTotalLoad(t)
    \/ EvaluateCount(t)
    \/ EvaluateEmit(t)
    \/ EvaluateLearnReturn(t)
    \/ EvaluateLearnRaise(t)

Fairness ==
    \A t \in Threads :
        /\ SF_vars(EvaluateEnter(t))
        /\ WF_vars(EvaluateStep(t))

SpecFair == Init /\ [][FairNext]_vars /\ Fairness

(***************************************************************************)
(* The governor with one caller, and with self.learning_mode as the host   *)
(* left it: True as constructed, or set to False before the first call.    *)
(***************************************************************************)
LearningInit == \E mode \in BOOLEAN : Constructed(mode)

LearningNext ==
    \/ EvaluateAction(1)
    \/ EvaluateEnter(1)
    \/ EvaluateDispatch(1)
    \/ EvaluateAppend(1)
    \/ EvaluateTotalLoad(1)
    \/ EvaluateCount(1)
    \/ EvaluateEmit(1)
    \/ EvaluateLearnReturn(1)
    \/ RegisterInterceptor(1)
    \/ ActivateGovernance(1)

SpecLearning == LearningInit /\ [][LearningNext]_vars

(***************************************************************************)
(* GenesisAPIClient.create_chat_completion, as the tests of                *)
(* test_genesis_api.py pin it down: one POST per attempt, a retry after a  *)
(* sleep on a server error, an exception for every other error status.     *)
(***************************************************************************)
\* The response statuses the server answers with.
Statuses == {200, 400, 401, 403, 429, 500, 502, 503}

\* The exception a response status ends the call with.
ErrorFor(status) ==
    CASE status = 400 -> "ValidationError"
      [] status \in {401, 403} -> "AuthenticationError"
      [] status = 429 -> "RateLimitError"
      [] OTHER -> "GenesisAPIError"

\* Faulty variant of Retryable, not what the client does: only 503 (service
\* unavailable) is retried.
RetryableOnly503(status) == status = 503

\* Faulty variant of Retryable, not what the client does: a rate limit is
\* retried like a server error.
RetryableWithRateLimit(status) == status >= 500 \/ status = 429

\* Whether a response status is retried: server errors are.
Retryable(status) == status >= 500

\* Faulty variant of Backoff, not what the client does: a fixed delay.
FixedDelay(retry) == 1

\* The delay slept before retry number retry + 1, in units of the first
\* delay: doubled each time.
Backoff(retry) == 2 ^ retry

\* Everything that is not the client's.
NotClient ==
    <<governance_active, decision_history, monitoring_queue, ethical_metrics,
      principle_weights, action_interceptors, learning_mode, lock,
      decision_counter, sink_events, sink_last, pc, call, frame, ret, calls,
      recorded, clock, api>>

\* create_chat_completion is called.
ClientCall ==
    /\ client.pc = "idle"
    /\ client.calls < MaxCalls
    /\ client' = [client EXCEPT !.pc = "request", !.calls = @ + 1,
                                !.requests = 0, !.delays = <<>>,
                                !.statuses = <<>>, !.result = "none"]
    /\ UNCHANGED NotClient

\* One attempt: the POST and what its response status leads to.
ClientRequest ==
    /\ client.pc = "request"
    /\ \E status \in Statuses :
          LET sent == [client EXCEPT !.requests = @ + 1,
                                    !.statuses = Append(@, status)]
              Ends(result) == [sent EXCEPT !.pc = "idle", !.result = result,
                                          !.results = Append(@, result)]
          IN  client' =
                 IF status = 200 THEN Ends("ok")
                 ELSE IF Retryable(status) /\ Len(client.delays) < MaxRetries
                 THEN [sent EXCEPT !.pc = "sleep"]
                 ELSE Ends(ErrorFor(status))
    /\ UNCHANGED NotClient

\* "await asyncio.sleep(delay)" between two attempts.
ClientSleep ==
    /\ client.pc = "sleep"
    /\ client' = [client EXCEPT
                     !.delays = Append(@, Backoff(Len(client.delays))),
                     !.pc = "request"]
    /\ UNCHANGED NotClient

ClientNext == ClientCall \/ ClientRequest \/ ClientSleep

SpecClient == Init /\ [][ClientNext]_vars

(***************************************************************************)
(* GenesisAPI of genesis_api.py: startup, shutdown and the /health route.  *)
(***************************************************************************)
\* initialize_genesis() returns a truthy or a falsy value, or raises.
InitializeOutcomes == {"True", "False", "raises"}

\* shutdown_genesis() returns or raises.
ShutdownOutcomes == {"returns", "raises"}

\* str() of a timedelta of whole seconds: hours, minutes, seconds, so that
\* <<0, 0, 0>> is "0:00:00".
StrTimedelta(seconds) ==
    <<seconds \div 3600, (seconds \div 60) % 60, seconds % 60>>

\* Everything that is neither the API's nor the clock.
NotApi ==
    <<governance_active, decision_history, monitoring_queue, ethical_metrics,
      principle_weights, action_interceptors, learning_mode, lock,
      decision_counter, sink_events, sink_last, pc, call, frame, ret, calls,
      recorded, client>>

\* startup() up to "await initialize_genesis()".
StartupBegin ==
    /\ api.pc = "idle"
    /\ api.requests < MaxCalls
    /\ api' = [api EXCEPT !.pc = "startup", !.requests = @ + 1]
    /\ clock' = clock
    /\ UNCHANGED NotApi

\* Faulty variant of StartupEnd, not what the code does: a failed startup
\* marks the API as not running.
StartupEndClearsOnFailure ==
    /\ api.pc = "startup"
    /\ \E outcome \in InitializeOutcomes, now \in Seconds :
          /\ clock' = now
          /\ api' = IF outcome = "True"
                    THEN [api EXCEPT !.is_running = TRUE,
                                     !.start_time = <<now>>,
                                     !.pc = "idle",
                                     !.last = "startup",
                                     !.outcome = outcome,
                                     !.returned = "True"]
                    ELSE [api EXCEPT !.is_running = FALSE,
                                     !.pc = "idle",
                                     !.last = "startup",
                                     !.outcome = outcome,
                                     !.returned = "False"]
    /\ UNCHANGED NotApi

\* startup() from the result of initialize_genesis: running and start_time
\* are set when it succeeds; a falsy result and an exception both return
\* False.
StartupEnd ==
    /\ api.pc = "startup"
    /\ \E outcome \in InitializeOutcomes, now \in Seconds :
          /\ clock' = now
          /\ api' = IF outcome = "True"
                    THEN [api EXCEPT !.is_running = TRUE,
                                     !.start_time = <<now>>,
                                     !.pc = "idle",
                                     !.last = "startup",
                                     !.outcome = outcome,
                                     !.returned = "True"]
                    ELSE [api EXCEPT !.pc = "idle",
                                     !.last = "startup",
                                     !.outcome = outcome,
                                     !.returned = "False"]
    /\ UNCHANGED NotApi

\* shutdown() up to "await shutdown_genesis()".
ShutdownBegin ==
    /\ api.pc = "idle"
    /\ api.requests < MaxCalls
    /\ api' = [api EXCEPT !.pc = "shutdown", !.requests = @ + 1]
    /\ clock' = clock
    /\ UNCHANGED NotApi

\* shutdown() from the result of shutdown_genesis: is_running is cleared
\* after it returns; when it raises the except clause only logs.
\* start_time is left as it is.
ShutdownEnd ==
    /\ api.pc = "shutdown"
    /\ \E outcome \in ShutdownOutcomes :
          api' = [api EXCEPT !.is_running =
                                IF outcome = "returns" THEN FALSE ELSE @,
                             !.pc = "idle",
                             !.last = "shutdown",
                             !.outcome = outcome,
                             !.returned = "None"]
    /\ clock' = clock
    /\ UNCHANGED NotApi

\* GET /health, served by a thread of its own (threaded=True).
HealthCheck ==
    /\ api.requests < MaxCalls
    /\ \E now \in Seconds :
          /\ clock' = now
          /\ api' = [api EXCEPT
                       !.status = IF api.is_running THEN "healthy"
                                  ELSE "unhealthy",
                       !.timestamp = now,
                       !.uptime = IF api.start_time # <<>>
                                  THEN StrTimedelta(now - api.start_time[1])
                                  ELSE <<0, 0, 0>>,
                       !.requests = @ + 1,
                       !.last = "health",
                       !.returned = "response"]
    /\ UNCHANGED NotApi

ApiNext ==
    \/ StartupBegin
    \/ StartupEnd
    \/ ShutdownBegin
    \/ ShutdownEnd
    \/ HealthCheck

SpecApi == Init /\ [][ApiNext]_vars

(***************************************************************************)
(* The rule evaluators on their own: one caller holds an action type and a *)
(* context and applies _check_violations, _check_concerns and              *)
(* _evaluate_action to them.                                               *)
(***************************************************************************)
\* An action type with a built-in interceptor, one without, and one of the
\* two the transparency rule exempts.
RuleActionTypes == {"data_access", "file_cleanup", "system_monitor"}

Scopes == {"local", "system", "network", "global"}

\* Every EthicalContext over the fields the rules read.
Contexts(action_type) ==
    {EthicalContext(action_type, Actor, scope, consent, reversible, persistent,
                    sensitive, modification, visible) :
        scope \in Scopes, consent \in {"None", "True", "False"},
        reversible \in BOOLEAN, persistent \in BOOLEAN, sensitive \in BOOLEAN,
        modification \in BOOLEAN, visible \in BOOLEAN}

\* The governor as constructed, and the first thread holding one input.
RulesInit ==
    /\ governance_active = FALSE
    /\ decision_history = <<>>
    /\ monitoring_queue = <<>>
    /\ ethical_metrics = ZeroMetrics
    /\ principle_weights = DefaultWeights
    /\ action_interceptors = [a \in CoreActionTypes |-> "core"]
    /\ learning_mode = TRUE
    /\ lock = NoThread
    /\ decision_counter = 0
    /\ sink_events = 0
    /\ sink_last = NoEvent
    /\ client = NoClient
    /\ api = NoApi
    /\ ret = NoReturn
    /\ calls = 0
    /\ recorded = <<>>
    /\ clock = 0
    /\ \E a \in RuleActionTypes : \E context \in Contexts(a) :
          /\ pc = [t \in Threads |-> IF t = 1 THEN "rules_violations" ELSE "idle"]
          /\ call = [t \in Threads |->
                       IF t = 1
                       THEN [NoCall EXCEPT !.op = "rules", !.action_type = a]
                       ELSE NoCall]
          /\ frame = [t \in Threads |->
                        IF t = 1 THEN [NoFrame EXCEPT !.context = context]
                        ELSE NoFrame]

\* "violations = self._check_violations(action_type, context)".
RulesCheckViolations(t) ==
    /\ pc[t] = "rules_violations"
    /\ frame' = [frame EXCEPT ![t].violations =
                    CheckViolations(call[t].action_type, frame[t].context)]
    /\ pc' = [pc EXCEPT ![t] = "rules_concerns"]
    /\ UNCHANGED <<governance_active, decision_history, monitoring_queue,
                   ethical_metrics, principle_weights, action_interceptors,
                   learning_mode, client, api, clock, lock, decision_counter,
                   sink_events, sink_last, call, ret, calls, recorded>>

\* "concerns = self._check_concerns(action_type, context)".
RulesCheckConcerns(t) ==
    /\ pc[t] = "rules_concerns"
    /\ frame' = [frame EXCEPT ![t].concerns =
                    CheckConcerns(call[t].action_type, frame[t].context)]
    /\ pc' = [pc EXCEPT ![t] = "rules_decide"]
    /\ UNCHANGED <<governance_active, decision_history, monitoring_queue,
                   ethical_metrics, principle_weights, action_interceptors,
                   learning_mode, client, api, clock, lock, decision_counter,
                   sink_events, sink_last, call, ret, calls, recorded>>

\* "self._evaluate_action(action_type, context)": the decision is returned.
RulesDecide(t) ==
    /\ pc[t] = "rules_decide"
    /\ clock' = clock
    /\ LET decision == EvaluateActionRules(call[t].action_type, frame[t].context)
       IN  /\ frame' = [frame EXCEPT ![t].decision = decision]
           /\ ret' = Ended(call[t], "returned", decision, "none")
    /\ pc' = [pc EXCEPT ![t] = "rules_done"]
    /\ UNCHANGED <<governance_active, decision_history, monitoring_queue,
                   ethical_metrics, principle_weights, action_interceptors,
                   learning_mode, client, api, lock, decision_counter,
                   sink_events, sink_last, call, calls, recorded>>

RulesNext ==
    \E t \in Threads :
        \/ RulesCheckViolations(t)
        \/ RulesCheckConcerns(t)
        \/ RulesDecide(t)

SpecRules == RulesInit /\ [][RulesNext]_vars


(***************************************************************************)
(* Properties.                                                             *)
(***************************************************************************)
Min(a, b) == IF a < b THEN a ELSE b

\* The thread is inside the critical section of evaluate_action.
InCritical(t) == pc[t] \notin {"idle", "ev_lock"}

\* C1: review_decision never raises to its caller, and whenever a step
\* inside it fails the decision returned is block / critical with
\* escalation_reason "review_system_error".
ReviewNeverRaises ==
    ret.op = "review" =>
       /\ ret.outcome = "returned"
       /\ ret.fault # "none" =>
             /\ ret.decision.decision = "block"
             /\ ret.decision.severity = "critical"
             /\ ret.decision.escalation_reason = "review_system_error"

\* C2: when the evaluator selected by evaluate_action on an active governor
\* faults, the call does not raise and returns a block decision.
EvaluateFailsClosed ==
    (ret.op = "evaluate" /\ ret.fault = "evaluator") =>
       /\ ret.outcome = "returned"
       /\ ret.decision.decision = "block"

\* C3: when the sink emission fails during evaluate_action on an active
\* governor, the call still returns the decision it computed.
EvaluateSurvivesSinkFailure ==
    (ret.op = "evaluate" /\ ret.fault = "sink") =>
       /\ ret.outcome = "returned"
       /\ ret.decision.decision \in EthicalDecisionType

\* C4: an evaluate_action called while governance is not active returns
\* allow / info with no affected principles and leaves the history, every
\* metrics counter, the weights and the registry as they were and hands
\* nothing to the sink.
InactiveEvaluateIsInert ==
    [][(~governance_active /\ calls' = calls + 1 /\ ret'.op = "evaluate") =>
          /\ ret'.outcome = "returned"
          /\ ret'.decision.decision = "allow"
          /\ ret'.decision.severity = "info"
          /\ ret'.decision.affected_principles = <<>>
          /\ UNCHANGED <<decision_history, ethical_metrics, principle_weights,
                         action_interceptors, sink_events, sink_last>>]_vars

\* C4 witness: governance is inactive and an evaluate_action of an action
\* on sensitive data without consent has returned.
InactiveEvaluateReturned ==
    /\ ~governance_active
    /\ ret.op = "evaluate"
    /\ ret.outcome = "returned"
    /\ ret.call.action_data = {"sensitive"}

\* C5 as claimed: while governance is not active, every decision returned
\* by evaluate_action or by review_decision is allow.
InactiveAllowsEverywhere ==
    (~governance_active /\ ret.op \in {"evaluate", "review"}
        /\ ret.outcome = "returned" /\ ret.fault = "none") =>
       ret.decision.decision = "allow"

\* C5 amended: while governance is not active, evaluate_action returns allow
\* for every input without applying a rule; review_decision does not read
\* the flag and applies the rules all the same: it blocks sensitive data
\* without consent and allows an empty context.
InactiveBypassIsEvaluateOnly ==
    ~governance_active =>
       /\ ret.op = "evaluate" =>
             /\ ret.outcome = "returned"
             /\ ret.decision.decision = "allow"
             /\ ret.decision.reasoning = "not_active"
       /\ (ret.op = "review" /\ ret.outcome = "returned" /\ ret.fault = "none") =>
             LET items == ret.call.context_map.items
                 violating == /\ items["sensitive_data"] = "True"
                              /\ items["user_consent"] # "True"
             IN  /\ violating => ret.decision.decision = "block"
                 /\ ret.call.context_map = EmptyDict =>
                       ret.decision.decision = "allow"

\* C5 witness: governance is inactive and review_decision has returned a
\* block decision made by the rules.
InactiveReviewBlocked ==
    /\ ~governance_active
    /\ ret.op = "review"
    /\ ret.outcome = "returned"
    /\ ret.fault = "none"
    /\ ret.decision.decision = "block"

\* C6: the governor starts inactive, activate_governance makes it active,
\* and once active it stays active under every later call.
GovernanceStaysActive ==
    /\ [](calls = 0 => ~governance_active)
    /\ [][/\ governance_active => governance_active'
          /\ (calls' = calls + 1 /\ ret'.op = "activate") => governance_active'
         ]_vars

\* C6 witness: activate_governance has been called on a governor that had
\* already recorded a decision, that is, on an active one.
ActivatedAgain ==
    /\ governance_active
    /\ ret.op = "activate"
    /\ decision_history # <<>>

EvaluateRecordsAndCounts ==
    [][\A t \in Threads :
          (pc[t] = "ev_learn" /\ pc'[t] = "idle" /\ ret'.outcome = "returned") =>
             LET d == ret'.decision
                 before == frame[t].entry_metrics
                 after == ethical_metrics'
                 One(kind) == IF d.decision = kind THEN 1 ELSE 0
             IN  /\ Len(decision_history') =
                       Min(Len(frame[t].entry_history) + 1, HistoryCapacity)
                 /\ decision_history'[Len(decision_history')] = d
                 /\ after.total_decisions = before.total_decisions + 1
                 /\ after.violations_prevented =
                       before.violations_prevented + One("block")
                 /\ after.restrictions_imposed =
                       before.restrictions_imposed + One("restrict")
                 /\ after.escalations_required =
                       before.escalations_required + One("escalate")
         ]_vars

\* C8 witness: an evaluate_action has returned a restrict decision and it
\* has been counted.
RestrictCounted ==
    /\ ret.op = "evaluate"
    /\ ret.outcome = "returned"
    /\ ret.decision.decision = "restrict"
    /\ ethical_metrics.restrictions_imposed = 1

\* C9: under every interleaving no increment is lost and recording is
\* atomic with counting: whenever the lock is free total_decisions is the
\* number of decisions recorded and the history holds min(that, capacity)
\* of them; a decision that is recorded but not yet counted exists only
\* while its caller holds the lock, with no other caller inside.
NoLostIncrement ==
    /\ \A t \in Threads : InCritical(t) => lock = t
    /\ lock = NoThread =>
          /\ ethical_metrics.total_decisions = Len(recorded)
          /\ Len(decision_history) =
                Min(ethical_metrics.total_decisions, HistoryCapacity)
    /\ ethical_metrics.total_decisions # Len(recorded) =>
          /\ lock \in Threads
          /\ pc[lock] \in {"ev_total_load", "ev_count"}
          /\ ethical_metrics.total_decisions + 1 = Len(recorded)

\* C9 witness: a decision is in the history and not yet counted while
\* another caller of evaluate_action waits for the lock.
UncountedWhileWaiting ==
    /\ ethical_metrics.total_decisions # Len(recorded)
    /\ \E t \in Threads : pc[t] = "ev_lock" /\ lock # t

\* C10: no registration interleaves with the dispatch step of a concurrent
\* evaluate_action: while a caller holds the lock and is about to dispatch,
\* the registry does not change.
RegistrationUnderLock ==
    [][(\E t \in Threads : pc[t] = "ev_dispatch" /\ lock = t) =>
          action_interceptors' = action_interceptors]_vars

(***************************************************************************)
(* The rules as sections 4.3 and 8 of the specification state them, for    *)
(* comparison with what the evaluators compute.                            *)
(***************************************************************************)
Range(s) == {s[i] : i \in 1..Len(s)}

\* The elements of the sequence are exactly the members of the set, each once.
Lists(s, set) == Range(s) = set /\ Len(s) = Cardinality(set)

ViolatedPrinciples(context) ==
    {p \in {"privacy", "security", "autonomy"} :
        \/ /\ p = "privacy"
           /\ context.sensitive_data_involved
           /\ context.user_consent \in {"False", "None"}
        \/ /\ p = "security"
           /\ context.system_modification
           /\ context.scope = "global"
        \/ /\ p = "autonomy"
           /\ ~context.user_visible
           /\ context.persistent}

ConcernedPrinciples(action_type, context) ==
    {p \in {"transparency", "safety"} :
        \/ /\ p = "transparency"
           /\ ~context.user_visible
           /\ action_type # "system_monitor"
           /\ action_type # "background_task"
        \/ /\ p = "safety"
           /\ ~context.reversible
           /\ context.scope \in {"system", "global"}}

\* C11: whenever a violation rule triggers, the rule pipeline returns block
\* with severity violation and confidence 0.95, lists exactly the violated
\* principles (no concern among them) and sets no monitoring requirement,
\* whichever concern rules trigger too.
ViolationsAlwaysBlock ==
    \A t \in Threads :
       (pc[t] = "rules_done" /\ ViolatedPrinciples(frame[t].context) # {}) =>
          LET d == frame[t].decision
          IN  /\ d.decision = "block"
              /\ d.severity = "violation"
              /\ d.confidence = 95
              /\ Lists(d.affected_principles,
                       ViolatedPrinciples(frame[t].context))
              /\ d.monitoring_requirements = <<>>

\* C11 witness: the pipeline has blocked an action for which a violation
\* rule (privacy) and a concern rule (transparency) trigger together.
BlockedDespiteConcern ==
    \E t \in Threads :
       /\ pc[t] = "rules_done"
       /\ frame[t].decision.decision = "block"
       /\ "privacy" \in ViolatedPrinciples(frame[t].context)
       /\ "transparency" \in
             ConcernedPrinciples(call[t].action_type, frame[t].context)

\* C12: for every context _check_violations returns exactly: privacy iff
\* sensitive data is involved and consent is not true, security iff the
\* system is modified with global scope, autonomy iff the action is not
\* user visible and persistent; each rule on its own.
CheckViolationsExact ==
    \A t \in Threads :
       pc[t] \in {"rules_concerns", "rules_decide", "rules_done"} =>
          Lists(frame[t].violations, ViolatedPrinciples(frame[t].context))

\* C12 witness: all three violation rules have triggered on one context.
AllViolationsTogether ==
    \E t \in Threads :
       /\ pc[t] = "rules_concerns"
       /\ frame[t].violations = <<"privacy", "security", "autonomy">>

\* C13: for every context and action type _check_concerns returns exactly:
\* transparency iff the action is not user visible and its type is neither
\* "system_monitor" nor "background_task", safety iff it is not reversible
\* and its scope is system or global; and when no violation triggers and a
\* concern does, the pipeline returns monitor / concern / 0.85 with the
\* concerns as affected principles and the two monitoring requirements.
CheckConcernsExact ==
    \A t \in Threads :
       /\ pc[t] \in {"rules_decide", "rules_done"} =>
             Lists(frame[t].concerns,
                   ConcernedPrinciples(call[t].action_type, frame[t].context))
       /\ (/\ pc[t] = "rules_done"
           /\ ViolatedPrinciples(frame[t].context) = {}
           /\ ConcernedPrinciples(call[t].action_type, frame[t].context) # {}) =>
             LET d == frame[t].decision
             IN  /\ d.decision = "monitor"
                 /\ d.severity = "concern"
                 /\ d.confidence = 85
                 /\ d.affected_principles = frame[t].concerns
                 /\ d.monitoring_requirements =
                       <<"increased_logging", "user_notification">>

\* C13 witness: a hidden, irreversible, global "system_monitor" action has
\* been monitored for safety alone.
MonitoredExemptAction ==
    \E t \in Threads :
       /\ pc[t] = "rules_done"
       /\ call[t].action_type = "system_monitor"
       /\ ~frame[t].context.user_visible
       /\ frame[t].decision.decision = "monitor"
       /\ frame[t].decision.affected_principles = <<"safety">>

\* C14: whenever no violation rule and no concern rule triggers, the rule
\* pipeline returns allow with severity info, no affected principle and
\* confidence 0.90.
NoRuleAllows ==
    \A t \in Threads :
       (/\ pc[t] = "rules_done"
        /\ ViolatedPrinciples(frame[t].context) = {}
        /\ ConcernedPrinciples(call[t].action_type, frame[t].context) = {}) =>
          LET d == frame[t].decision
          IN  /\ d.decision = "allow"
              /\ d.severity = "info"
              /\ d.affected_principles = <<>>
              /\ d.confidence = 90

\* C14 witness: the pipeline has decided on a context with every field at
\* its default.
DefaultContextAllowed ==
    \E t \in Threads :
       /\ pc[t] = "rules_done"
       /\ frame[t].context = DefaultContext(call[t].action_type, Actor)
       /\ frame[t].decision.decision = "allow"

\* Section 3's invariant on a decision.
WellFormed(d) ==
    /\ d.decision = "block" => d.severity \in {"violation", "critical"}
    /\ d.decision = "allow" => d.affected_principles = <<>>

\* C15: every decision returned by evaluate_action or review_decision and
\* every decision in the history is well formed (block implies severity
\* violation or critical, allow implies no affected principle), whichever
\* interceptors are registered.
DecisionsWellFormed ==
    /\ (ret.op \in {"evaluate", "review"} /\ ret.outcome = "returned") =>
          WellFormed(ret.decision)
    /\ \A i \in 1..Len(decision_history) : WellFormed(decision_history[i])

\* C16: on an active governor the dispatch step takes the decision of the
\* interceptor registered for the action type (a host's restrict, escalate
\* or block decision, not the general evaluator's), or the general
\* evaluator's decision when none is registered; that decision is the one
\* appended to the history and the one returned.
DispatchByActionType ==
    [][\A t \in Threads :
          LET a == call[t].action_type
              d == frame'[t].decision
              Registered(evaluator) ==
                 /\ a \in DOMAIN action_interceptors
                 /\ action_interceptors[a] = evaluator
          IN  /\ (pc[t] = "ev_dispatch" /\ pc'[t] = "ev_append") =>
                    /\ Registered("restrictor") =>
                          d.decision = "restrict" /\ d.reasoning = "host"
                    /\ Registered("escalator") =>
                          d.decision = "escalate" /\ d.reasoning = "host"
                    /\ Registered("blocker") =>
                          d.decision = "block" /\ d.reasoning = "host"
                    /\ a \notin DOMAIN action_interceptors =>
                          d = GeneralEthicalEvaluation(a, Actor,
                                 call[t].action_data, frame[t].context,
                                 frame[t].decision_id)
              /\ (pc[t] = "ev_append" /\ pc'[t] = "ev_total_load") =>
                    decision_history'[Len(decision_history')] = frame[t].decision
              /\ (pc[t] = "ev_learn" /\ pc'[t] = "idle") =>
                    /\ ret'.outcome = "returned"
                    /\ ret'.decision = frame[t].decision
                    /\ ret'.decision = decision_history'[Len(decision_history')]
      ]_vars

\* C16 witness: evaluate_action has returned and recorded a host
\* interceptor's decision for an action the general evaluator would allow.
HostDecisionReturned ==
    /\ ret.op = "evaluate"
    /\ ret.outcome = "returned"
    /\ ret.decision.reasoning = "host"
    /\ ret.call.context = "None"
    /\ ret.call.action_data = {}
    /\ decision_history[Len(decision_history)] = ret.decision

\* C17: a register_interceptor call makes its evaluator the one registered
\* for its action type, whatever was registered there before, leaves the
\* entries of all other action types as they were, and changes nothing
\* when the same pair is registered already; no other call changes the
\* registry.
LastRegistrationWins ==
    [][IF calls' = calls + 1 /\ ret'.op = "register"
       THEN LET a == ret'.call.action_type
                evaluator == ret'.call.evaluator
            IN  /\ DOMAIN action_interceptors' =
                      DOMAIN action_interceptors \cup {a}
                /\ action_interceptors'[a] = evaluator
                /\ \A b \in DOMAIN action_interceptors \ {a} :
                      action_interceptors'[b] = action_interceptors[b]
                /\ (a \in DOMAIN action_interceptors
                       /\ action_interceptors[a] = evaluator) =>
                      action_interceptors' = action_interceptors
       ELSE action_interceptors' = action_interceptors
      ]_vars

\* C17 witness: a registration has replaced an earlier registration for the
\* same action type, next to a host registration for another type.
RegistrationReplaced ==
    /\ ret.op = "register"
    /\ ret.call.action_type = "data_access"
    /\ action_interceptors["data_access"] = "faulty"
    /\ "file_cleanup" \in DOMAIN action_interceptors

\* C18: decision ids are unique per evaluation; in particular a decision
\* returned by review_decision never carries the id of the decision that
\* evaluate_action or review_decision returned just before it, also within
\* one clock second and also when it is the error fallback.
DecisionIdsUnique ==
    [][(/\ calls' = calls + 1
        /\ ret'.op = "review"
        /\ ret'.outcome = "returned"
        /\ ret.op \in {"evaluate", "review"}
        /\ ret.outcome = "returned") =>
          ret'.decision.decision_id # ret.decision.decision_id]_vars

\* The DecisionContext a context map stands for: every field read from the
\* key of its own name, with the field's default when the key is absent.
EquivalentContext(action_type, context_map) ==
    EthicalContext(action_type,
                   Get(context_map, "persona", "unknown"),
                   Get(context_map, "scope", "local"),
                   Get(context_map, "user_consent", "None"),
                   Truthy(Get(context_map, "reversible", "True")),
                   Truthy(Get(context_map, "persistent", "False")),
                   Truthy(Get(context_map, "sensitive_data_involved", "False")),
                   Truthy(Get(context_map, "system_modification", "False")),
                   Truthy(Get(context_map, "user_visible", "True")))

SameVerdict(d, e) ==
    /\ d.decision = e.decision
    /\ d.severity = e.severity
    /\ d.affected_principles = e.affected_principles

\* C19: a decision returned by review_decision for a context map has the
\* decision kind, severity and affected principles of the decision that
\* evaluate_action reaches on an active governor for the same action type
\* and the equivalent context, through the registered interceptor when the
\* action type has one.
ReviewMatchesEvaluate ==
    (ret.op = "review" /\ ret.outcome = "returned" /\ ret.fault = "none") =>
       LET a == ret.call.action_type
           context == EquivalentContext(a, ret.call.context_map)
           registered == HasInterceptor(action_interceptors, a)
       IN  /\ (registered /\ ~EvaluatorFaults(action_interceptors[a])) =>
                 SameVerdict(ret.decision,
                    EvaluatorDecision(action_interceptors[a], Actor, {},
                                      context, ret.decision.decision_id))
           /\ ~registered =>
                 SameVerdict(ret.decision,
                    GeneralEthicalEvaluation(a, Actor, {}, context,
                                             ret.decision.decision_id))

\* C20: review_decision reads the context from the keys named as the
\* context's fields: a map with sensitive_data_involved true and
\* user_consent false or absent, reviewed as "data_access", is blocked as a
\* privacy violation with confidence 0.95, and an empty map is allowed.
ReviewReadsContextFields ==
    (ret.op = "review" /\ ret.outcome = "returned" /\ ret.fault = "none") =>
       LET items == ret.call.context_map.items
           d == ret.decision
       IN  /\ (/\ ret.call.action_type = "data_access"
               /\ items["sensitive_data_involved"] = "True"
               /\ items["user_consent"] \in {"False", "absent"}) =>
                 /\ d.decision = "block"
                 /\ d.severity = "violation"
                 /\ d.affected_principles = <<"privacy">>
                 /\ d.confidence = 95
           /\ ret.call.context_map = EmptyDict =>
                 d.decision = "allow" /\ d.severity = "info"

\* C21: the sink is one-way: when the sink emission fails, review_decision
\* and evaluate_action still return, and return the decision the rules (or
\* the evaluator) gave; a review of an action the rules allow returns allow.
SinkIsOneWay ==
    /\ (ret.op = "review" /\ ret.fault = "sink") =>
          LET a == ret.call.action_type
              context == ReviewContext(a, ret.call.context_map)
          IN  /\ ret.outcome = "returned"
              /\ SameVerdict(ret.decision,
                             RulePipeline(ret.decision.decision_id, a, context))
              /\ (/\ ViolatedPrinciples(context) = {}
                  /\ ConcernedPrinciples(a, context) = {}) =>
                    ret.decision.decision = "allow"
    /\ (ret.op = "evaluate" /\ ret.fault = "sink") => ret.outcome = "returned"

\* The steps of one evaluate_action, as pairs of positions.
EvaluateOrder ==
    {<<"idle", "ev_lock">>, <<"ev_lock", "ev_dispatch">>,
     <<"ev_dispatch", "ev_append">>, <<"ev_dispatch", "idle">>,
     <<"ev_append", "ev_total_load">>, <<"ev_total_load", "ev_count">>,
     <<"ev_count", "ev_emit">>, <<"ev_emit", "ev_learn">>,
     <<"ev_emit", "idle">>, <<"ev_learn", "idle">>}

\* C22: within one evaluate_action on an active governor the decision is
\* recorded and counted, then emitted, then learnt from, then returned: the
\* event the sink receives is of a decision that is in the history and
\* counted and not yet learnt from; the sink gets an event of
\* evaluate_action only at that step, one per call, and a call returns only
\* after it, having learnt once (learning being enabled).
RecordEmitLearnReturn ==
    [][/\ \A t \in Threads :
             /\ pc'[t] # pc[t] => <<pc[t], pc'[t]>> \in EvaluateOrder
             /\ (pc[t] = "ev_emit" /\ pc'[t] = "ev_learn") =>
                   LET id == frame[t].decision.decision_id
                   IN  /\ sink_events' = sink_events + 1
                       /\ sink_last'.source = "evaluate"
                       /\ sink_last'.decision_id = id
                       /\ decision_history # <<>>
                       /\ decision_history[Len(decision_history)].decision_id = id
                       /\ \E i \in 1..Len(recorded) :
                             recorded[i].decision_id = id
                       /\ ethical_metrics.total_decisions =
                             frame[t].entry_metrics.total_decisions + 1
                       /\ ethical_metrics.total_decisions = Len(recorded)
                       /\ ethical_metrics.learning_adjustments =
                             frame[t].entry_metrics.learning_adjustments
             /\ (pc[t] = "ev_learn" /\ pc'[t] = "idle") =>
                   /\ ret'.outcome = "returned"
                   /\ sink_events' = sink_events
                   /\ learning_mode =>
                         ethical_metrics'.learning_adjustments =
                            frame[t].entry_metrics.learning_adjustments + 1
       /\ (sink_events' # sink_events /\ sink_last'.source = "evaluate") =>
             \E t \in Threads : pc[t] = "ev_emit" /\ pc'[t] = "ev_learn"
      ]_vars

\* C22 witness: a decision has been emitted and is not yet learnt from,
\* while another caller waits for the lock.
EmittedBeforeLearning ==
    \E t \in Threads :
       /\ pc[t] = "ev_learn"
       /\ sink_last.source = "evaluate"
       /\ sink_last.decision_id = frame[t].decision.decision_id
       /\ \E u \in Threads : pc[u] = "ev_lock"

\* C24: in every reachable state the weight table maps all nine principles
\* to a weight in [0.0, 1.0], for every foundation list and under learning.
WeightsCompleteAndBounded ==
    /\ DOMAIN principle_weights = EthicalDomain
    /\ \A p \in DOMAIN principle_weights :
          principle_weights[p] >= 0 /\ principle_weights[p] <= 100

\* C24 witness: the governor has learnt from a block on privacy, whose
\* weight was at the upper end of the range already and stays there.
LearntAtTheBound ==
    /\ ethical_metrics.learning_adjustments >= 1
    /\ decision_history # <<>>
    /\ decision_history[Len(decision_history)].decision = "block"
    /\ decision_history[Len(decision_history)].affected_principles =
          <<"privacy">>
    /\ principle_weights["privacy"] = 100

\* C30: a review_decision call, whether it ends normally or in the error
\* fallback, leaves the history, the metrics counters, the weights and the
\* registry as they were.
ReviewLeavesGovernorState ==
    [][(calls' = calls + 1 /\ ret'.op = "review") =>
          UNCHANGED <<decision_history, recorded, ethical_metrics,
                      principle_weights, action_interceptors,
                      monitoring_queue, governance_active>>]_vars

\* C30 witness: a review has ended in the error fallback on a governor whose
\* history holds a decision.
ReviewFellBackAfterEvaluate ==
    /\ ret.op = "review"
    /\ ret.outcome = "returned"
    /\ ret.fault = "sink"
    /\ decision_history # <<>>
    /\ ethical_metrics.total_decisions = 1

\* C23: learning does not alter the decision of the current call: with
\* learning enabled or disabled, the decision evaluate_action returns and
\* the one in the history are the decision the selected evaluator gave for
\* the call, and with learning disabled the weights stay as they were.
DecisionIndependentOfLearning ==
    [][\A t \in Threads :
          (pc[t] = "ev_learn" /\ pc'[t] = "idle") =>
             LET c == call[t]
                 f == frame[t]
                 given ==
                    IF HasInterceptor(action_interceptors, c.action_type)
                    THEN EvaluatorDecision(action_interceptors[c.action_type],
                                           Actor, c.action_data, f.context,
                                           f.decision_id)
                    ELSE GeneralEthicalEvaluation(c.action_type, Actor,
                                                  c.action_data, f.context,
                                                  f.decision_id)
             IN  /\ ret'.outcome = "returned"
                 /\ ret'.decision = given
                 /\ decision_history'[Len(decision_history')] = given
                 /\ ~learning_mode => principle_weights' = principle_weights
      ]_vars

\* C23 witness: with learning disabled, evaluate_action has returned and
\* recorded a block decision, which learning would have learnt from.
BlockedWithoutLearning ==
    /\ ~learning_mode
    /\ ret.op = "evaluate"
    /\ ret.outcome = "returned"
    /\ ret.decision.decision = "block"
    /\ decision_history # <<>>
    /\ ethical_metrics.learning_adjustments = 0

\* The last response of the client's current call.
LastStatus == client.statuses[Len(client.statuses)]

\* The client's current call has ended.
ClientEnded == client.pc = "idle" /\ client.result # "none"

\* C25: a chat completion is retried on server errors: a call that got k
\* server errors, k <= max_retries, and then a success returns the result
\* after exactly k + 1 requests, and no call gives up on a server error
\* before max_retries retries.
RetriesUntilSuccess ==
    /\ (client.statuses # <<>> /\ LastStatus = 200) =>
          /\ ClientEnded
          /\ client.result = "ok"
          /\ client.requests = Len(client.statuses)
          /\ Len(client.delays) = client.requests - 1
          /\ client.requests <= MaxRetries + 1
          /\ \A i \in 1..(Len(client.statuses) - 1) : client.statuses[i] >= 500
    /\ (ClientEnded /\ LastStatus >= 500) => client.requests = MaxRetries + 1

\* C25 witness: a call has succeeded on its last permitted attempt.
SucceededOnLastAttempt ==
    /\ ClientEnded
    /\ client.result = "ok"
    /\ client.requests = MaxRetries + 1

\* C26: a call whose every attempt gets a server error ends by raising
\* GenesisAPIError, having slept exactly max_retries times, each time
\* strictly longer than the time before; no call makes more than
\* max_retries + 1 requests.
ExhaustedRetriesRaise ==
    /\ client.requests <= MaxRetries + 1
    /\ (ClientEnded /\ \A i \in 1..Len(client.statuses) :
                          client.statuses[i] >= 500) =>
          /\ client.result = "GenesisAPIError"
          /\ Len(client.delays) = MaxRetries
          /\ \A i \in 2..Len(client.delays) :
                client.delays[i] > client.delays[i - 1]

\* C26 witness: a call has raised GenesisAPIError after max_retries sleeps.
RetriesExhausted ==
    /\ ClientEnded
    /\ client.result = "GenesisAPIError"
    /\ Len(client.delays) = MaxRetries
    /\ MaxRetries >= 2

\* C27: 400 raises ValidationError, 401 and 403 raise AuthenticationError,
\* 429 raises RateLimitError, each on the response that carries it and
\* without a retry; a call that ends on 500, 502 or 503 raises
\* GenesisAPIError.
StatusMapsToError ==
    /\ \A i \in 1..Len(client.statuses) :
          client.statuses[i] \in {400, 401, 403, 429} =>
             /\ i = Len(client.statuses)
             /\ ClientEnded
             /\ client.requests = i
             /\ Len(client.delays) = i - 1
    /\ (ClientEnded /\ LastStatus # 200) =>
          client.result =
             CASE LastStatus = 400 -> "ValidationError"
               [] LastStatus = 401 -> "AuthenticationError"
               [] LastStatus = 403 -> "AuthenticationError"
               [] LastStatus = 429 -> "RateLimitError"
               [] LastStatus \in {500, 502, 503} -> "GenesisAPIError"

\* C27 witness: a call has raised RateLimitError on its first response and
\* the next call has succeeded.
RecoveredAfterRateLimit ==
    /\ client.results = <<"RateLimitError", "ok">>
    /\ client.requests = 1

\* C28: the /health response reports uptime "0:00:00" whenever the Genesis
\* Layer is not running, also after a startup followed by a shutdown.
HealthUptimeZeroWhenStopped ==
    (api.last = "health" /\ ~api.is_running) => api.uptime = <<0, 0, 0>>

\* C29: after shutdown() has returned, is_running is false, whether
\* shutdown_genesis returned or raised.
ShutdownStopsRunning ==
    api.last = "shutdown" => ~api.is_running

\* C31: an evaluate_action that ends by raising, whether the evaluator or
\* the sink emission raised, leaves the history, total_decisions and the
\* per-kind counters as they were when the call entered.
EvaluateRaiseLeavesState ==
    [][\A t \in Threads :
          (InCritical(t) /\ pc'[t] = "idle" /\ ret'.op = "evaluate"
              /\ ret'.outcome = "raised") =>
             /\ decision_history' = frame[t].entry_history
             /\ ethical_metrics'.total_decisions =
                   frame[t].entry_metrics.total_decisions
             /\ ethical_metrics'.violations_prevented =
                   frame[t].entry_metrics.violations_prevented
             /\ ethical_metrics'.restrictions_imposed =
                   frame[t].entry_metrics.restrictions_imposed
             /\ ethical_metrics'.escalations_required =
                   frame[t].entry_metrics.escalations_required
      ]_vars

\* C32: the lock is released whenever evaluate_action exits, by return or
\* by an exception of the evaluator, the sink or the learning adjuster, and
\* under fair scheduling every evaluate_action waiting for the lock acquires
\* it and ends: the calls being finitely many, from some point on no caller
\* is waiting or inside.
EvaluateReleasesLock ==
    /\ [][\A t \in Threads :
             (InCritical(t) /\ pc'[t] = "idle") => lock' = NoThread]_vars
    /\ [](\A t \in Threads : pc[t] \in {"idle", "ev_lock"} => lock # t)
    /\ <>[](\A t \in Threads : pc[t] = "idle")

\* C32 witness: an evaluate_action has raised and left the lock free, and a
\* caller is waiting at the lock.
ReleasedByFailedEvaluate ==
    /\ ret.op = "evaluate"
    /\ ret.outcome = "raised"
    /\ lock = NoThread
    /\ \E t \in Threads : pc[t] = "ev_lock"

\* C33: whenever no evaluate_action is inside its critical section, the
\* history holds min(total_decisions, capacity) decisions, under every
\* sequence of calls, those that raise included.
HistoryMatchesTotal ==
    (\A t \in Threads : ~InCritical(t)) =>
       Len(decision_history) =
          Min(ethical_metrics.total_decisions, HistoryCapacity)

\* C33 witness: no caller is inside the critical section, the last
\* evaluate_action raised from the sink, and more decisions than the
\* capacity have been counted.
CountedPastCapacityAfterRaise ==
    /\ \A t \in Threads : ~InCritical(t)
    /\ ret.op = "evaluate"
    /\ ret.outcome = "raised"
    /\ ret.fault = "sink"
    /\ ethical_metrics.total_decisions > HistoryCapacity

\* The keys of self.ethical_metrics.
MetricNames == DOMAIN ZeroMetrics

\* The decisions evaluate_action has recorded and counted: the first
\* total_decisions of those appended.
Counted ==
    {i \in 1..Len(recorded) : i <= ethical_metrics.total_decisions}

RecordedOnlyWhileActive ==
    /\ []((decision_history # <<>> \/ ethical_metrics.total_decisions > 0
              \/ recorded # <<>>) => governance_active)
    /\ [][(governance_active /\ calls' = calls + 1) =>
             IF pc' = pc
             THEN ret'.op \in {"review", "register", "activate"}
             ELSE /\ ret' = ret
                  /\ \E t \in Threads :
                        /\ pc[t] = "idle"
                        /\ pc'[t] = "ev_lock"
                        /\ call'[t].op = "evaluate"]_vars

\* C35 witness: with a decision recorded, an evaluate_action has begun
\* beside a caller that is inside the critical section.
EvaluateBeganBesideAnother ==
    /\ governance_active
    /\ decision_history # <<>>
    /\ \E t, u \in Threads : pc[t] = "ev_lock" /\ InCritical(u)

\* C36: the monitoring queue never holds more than its capacity of 1,000
\* entries; nothing enqueues into it, so it is empty in every reachable
\* state, also after evaluations that returned monitor decisions with
\* monitoring requirements.
MonitoringQueueStaysEmpty ==
    /\ Len(monitoring_queue) <= MonitoringCapacity
    /\ monitoring_queue = <<>>

\* C36 witness: evaluate_action has returned a monitor decision that names
\* monitoring requirements.
MonitorDecisionReturned ==
    /\ ret.op = "evaluate"
    /\ ret.outcome = "returned"
    /\ ret.decision.decision = "monitor"
    /\ ret.decision.monitoring_requirements # <<>>
    /\ decision_history # <<>>

\* C37: the initial weight table does not depend on the foundation
\* statements: for every foundation list, whichever keywords its statements
\* match, initialization gives the hard-coded defaults, and the governor
\* holds them until the first learning adjustment.
WeightsIgnoreFoundation ==
    /\ calls = 0 =>
          \A foundation \in Foundations :
             InitializePrincipleWeights(foundation) = DefaultWeights
    /\ ethical_metrics.learning_adjustments = 0 =>
          principle_weights = DefaultWeights

\* C37 witness: the governor has been constructed from a foundation of two
\* statements, the first naming several principles and the second naming
\* creativity alone.
ConstructedFromMixedFoundation ==
    /\ calls = 0
    /\ \E foundation \in Foundations :
          /\ Len(foundation) = 2
          /\ Cardinality(foundation[1]) >= 2
          /\ foundation[2] = {"creativity"}
          /\ principle_weights = InitializePrincipleWeights(foundation)

\* C38: startup() never raises; it sets is_running and records start_time
\* exactly when initialize_genesis returned success, and then returns True;
\* when initialize_genesis returns failure or raises, startup() returns
\* False and is_running and start_time keep their values.
StartupSetsRunningOnSuccess ==
    [][(api.pc = "startup" /\ api'.pc = "idle") =>
          /\ api'.last = "startup"
          /\ api'.returned \in {"True", "False"}
          /\ api'.returned = "True" <=> api'.outcome = "True"
          /\ IF api'.outcome = "True"
             THEN /\ api'.is_running
                  /\ api'.start_time = <<clock'>>
             ELSE /\ api'.outcome \in {"False", "raises"}
                  /\ api'.is_running = api.is_running
                  /\ api'.start_time = api.start_time
      ]_vars

\* C38 witness: a startup() on a running API has returned False because
\* initialize_genesis raised, and the API is still running with the start
\* time of its first startup.
FailedRestartKeptRunning ==
    /\ api.last = "startup"
    /\ api.outcome = "raises"
    /\ api.returned = "False"
    /\ api.is_running
    /\ api.start_time # <<>>

=============================================================================
